---- MODULE Spec2Model ----
\* haze-ls language server (server/src/server.ts): the protocol session.
\* State: the three capability flags, the global settings, the per-document
\* settings cache of pending/settled configuration queries, the document
\* manager, the validation runs suspended on a settings query, and the
\* answers given to diagnostics pulls and completion requests.
EXTENDS Integers, Sequences, FiniteSets, TLC

\* ------------------------------------------------------------------ bounds
\* configuration queries sent during one session
MaxQueries == 2
\* diagnostics pull requests received during one session
MaxPulls == 1
\* highest document version a client notification carries
MaxVersion == 3
\* longest document text
MaxTextLen == 2

\* ------------------------------------------------------------- input sets
URIs == {"a.hz", "b.hz"}
Chars == {"x", "y"}

\* defaultSettings.maxNumberOfProblems
DefaultMaxNumberOfProblems == 1000
\* contributes.configuration "haze-ls.maxNumberOfProblems" default
PackagedMaxNumberOfProblems == 100

defaultSettings == [maxNumberOfProblems |-> DefaultMaxNumberOfProblems]
\* the value slot of a promise that holds no settings (pending or rejected)
NoSettings == [maxNumberOfProblems |-> 0]
\* what the client answers to workspace/configuration
ClientSettings == {[maxNumberOfProblems |-> PackagedMaxNumberOfProblems]}

VARIABLES
    phase,                  \* "created" | "initialize" | "ready"
    hasConfigurationCapability,
    hasWorkspaceFolderCapability,
    hasDiagnosticRelatedInformationCapability,
    initializeResult,       \* the InitializeResult returned to the client
    registered,             \* client.register(DidChangeConfiguration) was sent
    folderListener,         \* onDidChangeWorkspaceFolders listener installed
    globalSettings,
    documentSettings,       \* uri -> promise id cached for it, 0 = no entry
    promises,               \* configuration queries sent, in order
    documents,              \* the TextDocuments manager: uri -> document
    tasks,                  \* validateTextDocument runs awaiting settings
    replies,                \* diagnostics pulls received and their answers
    unhandled,              \* a push validation ended in a rejection
    settings,               \* validateTextDocument's `settings`, as last read
    completionReply,        \* last answer of the completion handler
    resolveReply,           \* last answer of the completion-resolve handler
    last                    \* the handler that ran last

vars == <<phase, hasConfigurationCapability, hasWorkspaceFolderCapability,
          hasDiagnosticRelatedInformationCapability, initializeResult,
          registered, folderListener, globalSettings, documentSettings,
          promises, documents, tasks, replies, unhandled, settings,
          completionReply, resolveReply, last>>

capVars == <<hasConfigurationCapability, hasWorkspaceFolderCapability,
             hasDiagnosticRelatedInformationCapability>>
handshakeVars == <<phase, initializeResult, registered, folderListener>>
settingsVars == <<globalSettings, documentSettings, promises>>
runVars == <<tasks, replies, unhandled, settings>>
catalogVars == <<completionReply, resolveReply>>

\* ------------------------------------------------------------ documents
\* a uri the manager holds no document for
NoDocument == [open |-> FALSE, version |-> 0, text |-> <<>>]

RECURSIVE TextsOfLen(_)
TextsOfLen(n) ==
    IF n = 0 THEN {<<>>}
    ELSE {Append(t, c) : t \in TextsOfLen(n - 1), c \in Chars}

Texts == UNION {TextsOfLen(n) : n \in 0..MaxTextLen}

Min(a, b) == IF a < b THEN a ELSE b
Max(a, b) == IF a < b THEN b ELSE a

\* JavaScript's content.substring(from, to) on offsets within the text
Substring(text, from, to) == SubSeq(text, from + 1, to)

\* offsetAt: a position beyond the text is clamped to its ends
ClampOffset(text, offset) == Max(0, Min(offset, Len(text)))

\* one TextDocumentContentChangeEvent: with a range, the range is replaced
\* (a reversed range is read in order); without one, the whole text is
ApplyChange(text, change) ==
    IF change.incremental
    THEN LET s == ClampOffset(text, Min(change.start, change.end))
             e == ClampOffset(text, Max(change.start, change.end))
         IN  Substring(text, 0, s) \o change.text \o Substring(text, e, Len(text))
    ELSE change.text

\* a faulty variant of ApplyChanges: the last change is applied first
RECURSIVE ApplyChangesReversed(_, _)
ApplyChangesReversed(text, changes) ==
    IF changes = <<>> THEN text
    ELSE ApplyChange(ApplyChangesReversed(text, Tail(changes)), Head(changes))

\* the changes of one notification, applied in the order received
RECURSIVE ApplyChanges(_, _)
ApplyChanges(text, changes) ==
    IF changes = <<>> THEN text
    ELSE ApplyChanges(ApplyChange(text, Head(changes)), Tail(changes))

\* TextDocument.update as the document manager calls it on didChange: the
\* changes are applied and the notification's version is stored; the stored
\* version is not consulted
UpdateDocument(document, changes, version) ==
    [open |-> TRUE, version |-> version,
     text |-> ApplyChanges(document.text, changes)]

\* TextDocument.create on didOpen
CreateDocument(version, text) ==
    [open |-> TRUE, version |-> version, text |-> text]

\* ------------------------------------------------------- capabilities
\* A client capability descriptor; each nested object may be missing:
\* workspace, textDocument and publishDiagnostics say whether the object is
\* there, the other three are the fields read inside them.
ClientCapabilities ==
    [workspace : BOOLEAN, configuration : BOOLEAN, workspaceFolders : BOOLEAN,
     textDocument : BOOLEAN, publishDiagnostics : BOOLEAN,
     relatedInformation : BOOLEAN]

ConfigurationDeclared(capabilities) ==
    capabilities.workspace /\ capabilities.configuration

WorkspaceFoldersDeclared(capabilities) ==
    capabilities.workspace /\ capabilities.workspaceFolders

\* a faulty variant of RelatedInformationDeclared: the field is read without
\* looking whether the objects around it are there
RelatedInformationUnguarded(capabilities) == capabilities.relatedInformation

RelatedInformationDeclared(capabilities) ==
    /\ capabilities.textDocument
    /\ capabilities.publishDiagnostics
    /\ capabilities.relatedInformation

\* the InitializeResult built by the initialize handler
InitializeResultFor(folders) ==
    [textDocumentSync |-> "Incremental",
     resolveProvider |-> TRUE,
     interFileDependencies |-> FALSE,
     workspaceDiagnostics |-> FALSE,
     workspaceFolders |-> folders]

NoResult ==
    [textDocumentSync |-> "None", resolveProvider |-> FALSE,
     interFileDependencies |-> FALSE, workspaceDiagnostics |-> FALSE,
     workspaceFolders |-> FALSE]

\* a descriptor without any of the objects and fields the server reads
NoCapabilities ==
    [workspace |-> FALSE, configuration |-> FALSE, workspaceFolders |-> FALSE,
     textDocument |-> FALSE, publishDiagnostics |-> FALSE,
     relatedInformation |-> FALSE]

\* no CompletionItem
NoItem ==
    [label |-> "", kind |-> "", data |-> -1, detail |-> <<>>,
     documentation |-> <<>>]

\* what a handler leaves in `last`: its name, the document notification it
\* was given (uri, version, text or content changes) and the requests and
\* notifications it sent to the client; further the capability descriptor
\* of an initialize request, the position of a completion request, the item
\* of a completion-resolve request, and the documents the handler called
\* validateTextDocument for, in call order
RanOn(handler, uri, version, text, changes, sent) ==
    [handler |-> handler, uri |-> uri, version |-> version, text |-> text,
     changes |-> changes, sent |-> sent, capabilities |-> NoCapabilities,
     position |-> 0, item |-> NoItem, validated |-> <<>>]

Ran(handler, uri, sent) == RanOn(handler, uri, 0, <<>>, <<>>, sent)

\* --------------------------------------------------------- settings cache
\* the section getDocumentSettings asks the client for
ConfigurationSection == "haze-ls"

\* a faulty variant of CachedPromise: the lookup never finds the entry
CachedPromiseMissed(resource) == 0

\* a faulty variant of CachedPromise: an entry whose query failed counts as
\* missing
CachedPromiseUnlessFailed(resource) ==
    IF documentSettings[resource] # 0
         /\ promises[documentSettings[resource]].state = "rejected"
    THEN 0
    ELSE documentSettings[resource]

\* documentSettings.get(resource); 0 is undefined
CachedPromise(resource) == documentSettings[resource]

\* a faulty variant of getDocumentSettings: the capability is not looked at
getDocumentSettingsUnguarded(resource) ==
    IF CachedPromise(resource) # 0
    THEN [promise |-> CachedPromise(resource), sent |-> FALSE]
    ELSE [promise |-> Len(promises) + 1, sent |-> TRUE]

\* getDocumentSettings(resource): the promise it returns and whether it sent
\* a workspace/configuration request to get it. Promise 0 is
\* Promise.resolve(globalSettings), settled when it is made; the others are
\* the queries, numbered in the order sent.
getDocumentSettings(resource) ==
    IF ~hasConfigurationCapability THEN [promise |-> 0, sent |-> FALSE]
    ELSE IF CachedPromise(resource) # 0
         THEN [promise |-> CachedPromise(resource), sent |-> FALSE]
         ELSE [promise |-> Len(promises) + 1, sent |-> TRUE]

NeedsQuery(resource) == getDocumentSettings(resource).sent

\* connection.workspace.getConfiguration({scopeUri, section}): a new pending
\* promise
PendingQuery(resource) ==
    [uri |-> resource, section |-> ConfigurationSection,
     state |-> "pending", value |-> NoSettings]

PromisesAfterGet(resource) ==
    IF NeedsQuery(resource)
    THEN Append(promises, PendingQuery(resource))
    ELSE promises

\* a faulty variant of CacheAfterGet: the result is cached under every uri
CacheAfterGetForAll(resource) ==
    IF NeedsQuery(resource)
    THEN [u \in URIs |-> getDocumentSettings(resource).promise]
    ELSE documentSettings

\* documentSettings.set(resource, result)
CacheAfterGet(resource) ==
    IF NeedsQuery(resource)
    THEN [documentSettings EXCEPT
            ![resource] = getDocumentSettings(resource).promise]
    ELSE documentSettings


\* what `await` finds when the run reaches it: "pending" suspends the run,
\* "fulfilled" lets it go on in the same turn, "rejected" throws
Awaited(ps, p) == IF p = 0 THEN "fulfilled" ELSE ps[p].state

\* the value `await` yields from a fulfilled promise
AwaitedValue(ps, p) == IF p = 0 THEN globalSettings ELSE ps[p].value

\* a faulty variant of CacheAfterClose: the entry is left in the cache
CacheKeptAfterClose(uri) == documentSettings

\* a faulty variant of CacheAfterClose: an entry whose query is unanswered
\* is left in the cache
CacheAfterCloseIfSettled(uri) ==
    IF documentSettings[uri] # 0
         /\ promises[documentSettings[uri]].state = "pending"
    THEN documentSettings
    ELSE [documentSettings EXCEPT ![uri] = 0]

\* documentSettings.delete(uri) in onDidClose
CacheAfterClose(uri) == [documentSettings EXCEPT ![uri] = 0]

\* a Map without entries
EmptyCache == [u \in URIs |-> 0]

\* a faulty variant of CacheAfterConfigurationChange: the cache is not cleared
CacheKeptAfterConfigurationChange == documentSettings

\* documentSettings.clear() in onDidChangeConfiguration
CacheAfterConfigurationChange == EmptyCache

\* `change.settings.languageServerExample || defaultSettings`
GlobalSettingsFrom(change) ==
    IF change["languageServerExample"] # NoSettings
    THEN change["languageServerExample"]
    ELSE defaultSettings

\* --------------------------------------------------------- validation
\* validateTextDocument's result: the only rule is commented out, so the
\* diagnostics array is returned as created
Diagnostics(text, maxSettings) == <<>>

\* the report the pull handler returns once validation ended with `outcome`;
\* a rejection leaves the handler's promise rejected, which the connection
\* answers with a ResponseError
ReportState(outcome) ==
    CASE outcome = "pending" -> "pending"
      [] outcome = "fulfilled" -> "full"
      [] outcome = "rejected" -> "error"

\* {kind: Full, items: await validateTextDocument(document)}; while the run
\* is suspended, and when it threw, there are no items. `read` is what
\* textDocument.getText() gave the run that computed the items: <<text>>,
\* or <<>> when no run got that far
ReportOf(uri, outcome, items, read) ==
    [uri |-> uri, state |-> ReportState(outcome),
     items |-> IF outcome = "fulfilled" THEN items ELSE <<>>,
     read |-> IF outcome = "fulfilled" THEN read ELSE <<>>]

\* the report of a run that read `text`
Report(uri, outcome, text, maxSettings) ==
    ReportOf(uri, outcome, Diagnostics(text, maxSettings), <<text>>)

\* the report for a document the manager does not hold
EmptyReport(uri) == ReportOf(uri, "fulfilled", <<>>, <<>>)

\* A suspended run keeps the TextDocument it was called with. The manager
\* updates that object in place on didChange, so a run sees the text of the
\* latest change; on didClose the manager drops the object, which from then
\* on keeps its last text (`held`) whatever is opened under the uri later.
Suspended(kind, uri, p, req) ==
    [kind |-> kind, uri |-> uri, promise |-> p, req |-> req, held |-> <<>>]

\* a faulty variant of TextOf: the run looks the text up in the manager, by
\* uri, when it resumes
TextOfStored(task) == documents[task.uri].text

\* textDocument.getText() in a run that resumes
TextOf(task) ==
    IF task.held # <<>> THEN task.held[1] ELSE documents[task.uri].text

\* the runs after the manager dropped the document of uri
TasksAfterClose(uri) ==
    {IF t.uri = uri /\ t.held = <<>>
     THEN [t EXCEPT !.held = <<documents[uri].text>>] ELSE t : t \in tasks}

\* validateTextDocument(textDocument) up to its await, and past it when the
\* settings promise is already settled; req is the pull it answers, 0 for
\* the run started by onDidChangeContent (its result is dropped)
Validate(kind, uri, req) ==
    LET p == getDocumentSettings(uri).promise
        ps == PromisesAfterGet(uri)
        outcome == Awaited(ps, p)
    IN  /\ promises' = ps
        /\ documentSettings' = CacheAfterGet(uri)
        /\ tasks' = IF outcome = "pending"
                    THEN tasks \cup {Suspended(kind, uri, p, req)}
                    ELSE tasks
        /\ replies' = IF kind = "pull"
                      THEN Append(replies,
                                  Report(uri, outcome, documents'[uri].text,
                                         AwaitedValue(ps, p)))
                      ELSE replies
        /\ unhandled' = (unhandled \/ (kind = "push" /\ outcome = "rejected"))
        /\ settings' = IF outcome = "fulfilled"
                       THEN AwaitedValue(ps, p) ELSE settings

\* the messages a validation run sends to the client before it suspends
SentByValidate(uri) ==
    IF NeedsQuery(uri) THEN {"workspace/configuration"} ELSE {}

QueryAllowed(uri) == NeedsQuery(uri) => Len(promises) < MaxQueries

\* ------------------------------------------------------------- handlers
Init ==
    /\ phase = "created"
    /\ hasConfigurationCapability = FALSE
    /\ hasWorkspaceFolderCapability = FALSE
    /\ hasDiagnosticRelatedInformationCapability = FALSE
    /\ initializeResult = NoResult
    /\ registered = FALSE
    /\ folderListener = FALSE
    /\ globalSettings = defaultSettings
    /\ documentSettings = EmptyCache
    /\ promises = <<>>
    /\ documents = [u \in URIs |-> NoDocument]
    /\ tasks = {}
    /\ replies = <<>>
    /\ unhandled = FALSE
    /\ settings = NoSettings
    /\ completionReply = <<>>
    /\ resolveReply = <<>>
    /\ last = Ran("none", "", {})

\* connection.onInitialize
Initialize(capabilities) ==
    /\ phase = "created"
    /\ phase' = "initialize"
    /\ hasConfigurationCapability' = ConfigurationDeclared(capabilities)
    /\ hasWorkspaceFolderCapability' = WorkspaceFoldersDeclared(capabilities)
    /\ hasDiagnosticRelatedInformationCapability' =
           RelatedInformationDeclared(capabilities)
    /\ initializeResult' =
           InitializeResultFor(WorkspaceFoldersDeclared(capabilities))
    /\ last' = [Ran("onInitialize", "", {})
                   EXCEPT !.capabilities = capabilities]
    /\ UNCHANGED <<registered, folderListener, settingsVars, documents,
                   runVars, catalogVars>>

\* a faulty variant of Initialized: the handler takes the registration it
\* sends for the end of the configuration capability's use
InitializedResetting ==
    /\ phase = "initialize"
    /\ phase' = "ready"
    /\ registered' = hasConfigurationCapability
    /\ folderListener' = hasWorkspaceFolderCapability
    /\ hasConfigurationCapability' = FALSE
    /\ last' = Ran("onInitialized", "",
                   IF hasConfigurationCapability
                   THEN {"client/registerCapability"} ELSE {})
    /\ UNCHANGED <<hasWorkspaceFolderCapability,
                   hasDiagnosticRelatedInformationCapability,
                   initializeResult, settingsVars, documents, runVars,
                   catalogVars>>

\* connection.onInitialized
Initialized ==
    /\ phase = "initialize"
    /\ phase' = "ready"
    /\ registered' = hasConfigurationCapability
    /\ folderListener' = hasWorkspaceFolderCapability
    /\ last' = Ran("onInitialized", "",
                   IF hasConfigurationCapability
                   THEN {"client/registerCapability"} ELSE {})
    /\ UNCHANGED <<capVars, initializeResult, settingsVars, documents,
                   runVars, catalogVars>>

\* textDocument/didOpen: the manager stores the new document and fires
\* onDidChangeContent, whose listener starts a validation run
DidOpen(uri, version, text) ==
    /\ phase = "ready"
    /\ ~documents[uri].open
    /\ QueryAllowed(uri)
    /\ documents' = [documents EXCEPT ![uri] = CreateDocument(version, text)]
    /\ Validate("push", uri, 0)
    /\ last' = [RanOn("didOpen", uri, version, text, <<>>,
                       SentByValidate(uri))
                   EXCEPT !.validated = <<uri>>]
    /\ UNCHANGED <<capVars, handshakeVars, globalSettings, catalogVars>>

\* textDocument/didChange: the manager updates the synced document and fires
\* onDidChangeContent
DidChange(uri, version, changes) ==
    /\ phase = "ready"
    /\ documents[uri].open
    /\ changes # <<>>
    /\ QueryAllowed(uri)
    /\ Len(UpdateDocument(documents[uri], changes, version).text) <= MaxTextLen
    /\ documents' =
           [documents EXCEPT ![uri] = UpdateDocument(@, changes, version)]
    /\ Validate("push", uri, 0)
    /\ last' = [RanOn("didChange", uri, version, <<>>, changes,
                       SentByValidate(uri))
                   EXCEPT !.validated = <<uri>>]
    /\ UNCHANGED <<capVars, handshakeVars, globalSettings, catalogVars>>

\* textDocument/didClose: the manager drops the document and fires onDidClose
DidClose(uri) ==
    /\ phase = "ready"
    /\ documents[uri].open
    /\ documents' = [documents EXCEPT ![uri] = NoDocument]
    /\ documentSettings' = CacheAfterClose(uri)
    /\ tasks' = TasksAfterClose(uri)
    /\ last' = Ran("didClose", uri, {})
    /\ UNCHANGED <<capVars, handshakeVars, globalSettings, promises,
                   replies, unhandled, settings, catalogVars>>

\* connection.languages.diagnostics.on, the document is known
PullKnown(uri) ==
    /\ documents[uri].open
    /\ QueryAllowed(uri)
    /\ Validate("pull", uri, Len(replies) + 1)
    /\ last' = [Ran("diagnostics", uri, SentByValidate(uri))
                   EXCEPT !.validated = <<uri>>]

\* a faulty variant of PullUnknown: the handler validates without looking the
\* document up
PullUnknownValidates(uri) ==
    /\ ~documents[uri].open
    /\ QueryAllowed(uri)
    /\ Validate("pull", uri, Len(replies) + 1)
    /\ last' = [Ran("diagnostics", uri, SentByValidate(uri))
                   EXCEPT !.validated = <<uri>>]

\* connection.languages.diagnostics.on, documents.get(uri) is undefined
PullUnknown(uri) ==
    /\ ~documents[uri].open
    /\ replies' = Append(replies, EmptyReport(uri))
    /\ last' = Ran("diagnostics", uri, {})
    /\ UNCHANGED <<documentSettings, promises, tasks, unhandled, settings>>

\* textDocument/diagnostic
DiagnosticsPull(uri) ==
    /\ phase = "ready"
    /\ Len(replies) < MaxPulls
    /\ UNCHANGED <<capVars, handshakeVars, globalSettings, documents,
                   catalogVars>>
    /\ (PullKnown(uri) \/ PullUnknown(uri))

\* The client's answer to the workspace/configuration request p arrives:
\* the promise settles and every run awaiting it resumes in the same turn.
ConfigurationReply(p, outcome, value) ==
    /\ p \in DOMAIN promises
    /\ promises[p].state = "pending"
    /\ promises' = [promises EXCEPT ![p] =
                      [@ EXCEPT !.state = outcome,
                                !.value = IF outcome = "fulfilled"
                                          THEN value ELSE NoSettings]]
    /\ tasks' = {t \in tasks : t.promise # p}
    /\ replies' = [i \in DOMAIN replies |->
                     IF \E t \in tasks :
                            t.promise = p /\ t.kind = "pull" /\ t.req = i
                     THEN LET run == CHOOSE t \in tasks :
                                        /\ t.promise = p
                                        /\ t.kind = "pull"
                                        /\ t.req = i
                          IN  Report(replies[i].uri, outcome, TextOf(run),
                                     value)
                     ELSE replies[i]]
    /\ unhandled' = (unhandled \/
                       (outcome = "rejected" /\
                        \E t \in tasks : t.promise = p /\ t.kind = "push"))
    /\ settings' = IF outcome = "fulfilled" /\ \E t \in tasks : t.promise = p
                   THEN value ELSE settings
    /\ last' = Ran("configurationReply", promises[p].uri, {})
    /\ UNCHANGED <<capVars, handshakeVars, globalSettings, documentSettings,
                   documents, catalogVars>>

\* connection.onDidChangeConfiguration; change is the notification's
\* settings object
DidChangeConfiguration(change) ==
    /\ phase = "ready"
    /\ IF hasConfigurationCapability
       THEN /\ documentSettings' = CacheAfterConfigurationChange
            /\ globalSettings' = globalSettings
       ELSE /\ globalSettings' = GlobalSettingsFrom(change)
            /\ documentSettings' = documentSettings
    /\ last' = Ran("onDidChangeConfiguration", "",
                   {"workspace/diagnostic/refresh"})
    /\ UNCHANGED <<capVars, handshakeVars, promises, documents, runVars,
                   catalogVars>>

\* connection.onDidChangeWatchedFiles
DidChangeWatchedFiles ==
    /\ phase = "ready"
    /\ last' = Ran("onDidChangeWatchedFiles", "", {"window/logMessage"})
    /\ UNCHANGED <<capVars, handshakeVars, settingsVars, documents, runVars,
                   catalogVars>>

\* ------------------------------------------------------------ catalog
\* enum TokenKind, in declaration order: a member's value is its position,
\* counted from 0
TokenKindNames ==
    <<"Function", "Intrinsic", "Geometry", "Byte", "String", "Nvr",
      "Return", "While", "For", "If", "Else", "Asm",
      "Print", "Dotmacro", "Dotdefine", "Dotorg", "Dothook", "Dotunhook",
      "R0", "R1", "R2", "R3", "Move", "Load",
      "Copy", "Save", "Iadd", "Isub", "Band", "Bior",
      "Bxor", "Call", "Exit", "Push", "Pull", "Brnz",
      "Bool">>

TokenKind(name) ==
    (CHOOSE i \in DOMAIN TokenKindNames : TokenKindNames[i] = name) - 1

\* a CompletionItem the completion handler builds; detail and documentation
\* are unset (the empty sequence) until the item is resolved
Item(label, member) ==
    [label |-> label, kind |-> "Keyword", data |-> TokenKind(member),
     detail |-> <<>>, documentation |-> <<>>]

\* the array the completion handler returns
CompletionItems ==
    <<Item("function", "Function"),
      Item("intrinsic", "Intrinsic"),
      Item("geometry", "Geometry"),
      Item("byte", "Byte"),
      Item("string", "String"),
      Item("nvr", "Nvr"),
      Item("return", "Return"),
      Item("while", "While"),
      Item("for", "For"),
      Item("if", "If"),
      Item("else", "Else"),
      Item("asm", "Asm"),
      Item("print", "Print"),
      Item(".macro", "Dotmacro"),
      Item(".define", "Dotdefine"),
      Item(".org", "Dotorg"),
      Item(".hook", "Dothook"),
      Item(".unhook", "Dotunhook"),
      Item("r0", "R0"),
      Item("r1", "R1"),
      Item("r2", "R2"),
      Item("r3", "R3"),
      Item("move", "Move"),
      Item("load", "Load"),
      Item("save", "Save"),
      Item("copy", "Copy"),
      Item("iadd", "Iadd"),
      Item("isub", "Isub"),
      Item("band", "Band"),
      Item("bior", "Bior"),
      Item("bxor", "Bxor"),
      Item("call", "Call"),
      Item("exit", "Exit"),
      Item("push", "Push"),
      Item("pull", "Pull"),
      Item("brnz", "Brnz"),
      Item("bool", "Bool")>>

\* the switch of the completion-resolve handler: member, detail, documentation
ResolveCases ==
    <<<<"Function", "function",
        "function {typename} {identifier} = ( {arguments} ) {statement}">>,
      <<"Intrinsic", "intrinsic",
        "intrinsic {identifier} = {value};">>,
      <<"Geometry", "geometry",
        "geometry {WIP};">>,
      <<"Byte", "byte",
        "byte {identifier} = {expression};">>,
      <<"String", "string",
        "string {identifier} = \"{text}\";">>,
      <<"Nvr", "nvr",
        "function nvr {identifier} = ...">>,
      <<"Return", "return",
        "return {expression};">>,
      <<"While", "while",
        "while ({expression}) {statement}">>,
      <<"For", "for",
        "for ({statement}; {expression}; {expression}) {statement}">>,
      <<"If", "if",
        "if ({expression}) {statement}">>,
      <<"Else", "else",
        "if ... else {statement}">>,
      <<"Asm", "asm",
        "asm { {commands} }">>,
      <<"Print", "print",
        "print({expression});">>,
      <<"Dotmacro", ".macro",
        ".macro {identifier} = ({arguments}): { {substitutions} }">>,
      <<"Dotdefine", ".define",
        ".define {identifier} = {constexpr}">>,
      <<"Dotorg", ".dotorg",
        ".dotorg {address}">>,
      <<"Dothook", ".hook",
        ".hook">>,
      <<"Dotunhook", ".unhook",
        ".unhook">>,
      <<"R0", "r0",
        "r0">>,
      <<"R1", "r1",
        "r1">>,
      <<"R2", "r2",
        "r2">>,
      <<"R3", "r3",
        "r3">>,
      <<"Move", "move",
        "move {dst-reg}, {src-reg}">>,
      <<"Load", "load",
        "load {dst-reg}, &{src-addr}">>,
      <<"Copy", "copy",
        "copy {dst-reg}, #{src-imm}">>,
      <<"Save", "save",
        "save &{dst-addr}, {src-reg}">>,
      <<"Iadd", "iadd",
        "iadd {dst-reg}, {src-reg}">>,
      <<"Isub", "isub",
        "isub {dst-reg}, {src-reg}">>,
      <<"Band", "band",
        "band {dst-reg}, {src-reg}">>,
      <<"Bior", "bior",
        "bior {dst-reg}, {src-reg}">>,
      <<"Bxor", "bxor",
        "bxor {dst-reg}, {src-reg}">>,
      <<"Call", "call",
        "call &{dst-addr}">>,
      <<"Exit", "exit",
        "exit">>,
      <<"Push", "push",
        "push {src-reg}">>,
      <<"Pull", "pull",
        "pull {dst-reg}">>,
      <<"Brnz", "brnz",
        "brnz &{dst-addr}, {src-reg}">>,
      <<"Bool", "bool",
        "bool {src-reg}">>>>

\* a faulty variant of MatchingCases: the last member of the enum has no case
MatchingCasesWithoutLast(data) ==
    {i \in DOMAIN ResolveCases :
        /\ TokenKind(ResolveCases[i][1]) = data
        /\ data # Len(TokenKindNames) - 1}

\* the case of the switch that matches item.data, as a set: empty when the
\* switch has no case for it
MatchingCases(data) ==
    {i \in DOMAIN ResolveCases : TokenKind(ResolveCases[i][1]) = data}

\* a faulty variant of ResolveItem: a default case blanks the item
ResolveItemDefaulting(item) ==
    IF MatchingCases(item.data) = {}
    THEN [item EXCEPT !.detail = <<"">>, !.documentation = <<"">>]
    ELSE LET c == ResolveCases[CHOOSE i \in MatchingCases(item.data) : TRUE]
         IN  [item EXCEPT !.detail = <<c[2]>>, !.documentation = <<c[3]>>]

\* the completion-resolve handler: the matching case sets detail and
\* documentation; without one the item is returned as it came
ResolveItem(item) ==
    IF MatchingCases(item.data) = {} THEN item
    ELSE LET c == ResolveCases[CHOOSE i \in MatchingCases(item.data) : TRUE]
         IN  [item EXCEPT !.detail = <<c[2]>>, !.documentation = <<c[3]>>]

\* a faulty variant of Completion: only a document the manager holds gets
\* the list
CompletionOfOpenDocument(uri, position) ==
    /\ phase = "ready"
    /\ completionReply' = IF documents[uri].open THEN CompletionItems ELSE <<>>
    /\ last' = [Ran("onCompletion", uri, {}) EXCEPT !.position = position]
    /\ UNCHANGED <<capVars, handshakeVars, settingsVars, documents, runVars,
                   resolveReply>>

\* connection.onCompletion: the position is not read
Completion(uri, position) ==
    /\ phase = "ready"
    /\ completionReply' = CompletionItems
    /\ last' = [Ran("onCompletion", uri, {}) EXCEPT !.position = position]
    /\ UNCHANGED <<capVars, handshakeVars, settingsVars, documents, runVars,
                   resolveReply>>

\* connection.onCompletionResolve
CompletionResolve(item) ==
    /\ phase = "ready"
    /\ resolveReply' = <<ResolveItem(item)>>
    /\ last' = [Ran("onCompletionResolve", "", {}) EXCEPT !.item = item]
    /\ UNCHANGED <<capVars, handshakeVars, settingsVars, documents, runVars,
                   completionReply>>

\* ------------------------------------------------------- client inputs
\* descriptors of the session specification: everything declared, nothing
\* declared, and a workspace object without the configuration field
SessionCapabilities ==
    {c \in ClientCapabilities :
        /\ c.textDocument = c.workspace
        /\ c.publishDiagnostics = c.workspace
        /\ c.relatedInformation = c.workspace
        /\ c.workspaceFolders = c.workspace
        /\ (c.configuration => c.workspace)}

\* descriptors of a client without workspace/configuration support
PlainCapabilities ==
    {c \in ClientCapabilities :
        /\ c.workspace /\ ~c.configuration /\ c.workspaceFolders
        /\ c.textDocument /\ c.publishDiagnostics}

Sections == {"languageServerExample", "haze-ls"}

\* the settings object of a workspace/didChangeConfiguration notification:
\* each section is there or not
ChangedSettings ==
    [Sections -> {NoSettings} \cup ClientSettings]

FullChange(text) ==
    [incremental |-> FALSE, start |-> 0, end |-> 0, text |-> text]
RangeChange(start, end, text) ==
    [incremental |-> TRUE, start |-> start, end |-> end, text |-> text]

\* the session specification opens a document as "x", version 1, and
\* changes it to "y", version 2
SessionOpenVersions == {1}
SessionOpenTexts == {<<"x">>}
SessionChangeVersions == {2}
SessionChanges == {<<FullChange(<<"y">>)>>}

\* content changes of the document-store specification: full replacements
\* and range replacements, by nothing or by one character
Insertions == TextsOfLen(0) \cup TextsOfLen(1)
ContentChanges ==
    {FullChange(t) : t \in Insertions}
      \cup {RangeChange(s, e, t) :
              s \in 0..MaxTextLen, e \in 0..MaxTextLen, t \in Insertions}
\* the changes a notification of two is made of: insert a character before
\* or after the first one, delete the first character, empty the text
Edits ==
    {RangeChange(s, s, t) : s \in {0, 1}, t \in TextsOfLen(1)}
      \cup {RangeChange(0, 1, <<>>), FullChange(<<>>)}
StoreChanges ==
    {<<c>> : c \in ContentChanges} \cup {<<c, d>> : c \in Edits, d \in Edits}

\* --------------------------------------------------------- specifications
\* the session: handshake, document lifecycle, settings cache, pulls
Next ==
    \/ \E c \in SessionCapabilities : Initialize(c)
    \/ Initialized
    \/ \E u \in URIs, v \in SessionOpenVersions, t \in SessionOpenTexts :
          DidOpen(u, v, t)
    \/ \E u \in URIs, v \in SessionChangeVersions, cs \in SessionChanges :
          DidChange(u, v, cs)
    \/ \E u \in URIs : DidClose(u)
    \/ \E u \in URIs : DiagnosticsPull(u)
    \/ \E p \in 1..MaxQueries, s \in ClientSettings :
          ConfigurationReply(p, "fulfilled", s)
    \/ \E p \in 1..MaxQueries : ConfigurationReply(p, "rejected", NoSettings)
    \/ \E s \in ChangedSettings : DidChangeConfiguration(s)
    \/ DidChangeWatchedFiles

Spec == Init /\ [][Next]_vars

\* the document store under edits, with a client that answers no
\* configuration queries
NextStore ==
    \/ \E c \in PlainCapabilities : Initialize(c)
    \/ Initialized
    \/ \E v \in 1..MaxVersion, t \in Texts : DidOpen("a.hz", v, t)
    \/ \E v \in 1..MaxVersion, cs \in StoreChanges : DidChange("a.hz", v, cs)
    \/ DidClose("a.hz")

SpecStore == Init /\ [][NextStore]_vars

\* the completion catalog
NextCatalog ==
    \/ \E c \in ClientCapabilities : Initialize(c)
    \/ Initialized
    \/ \E u \in URIs, position \in 0..MaxTextLen : Completion(u, position)
    \/ \E i \in DOMAIN completionReply : CompletionResolve(completionReply[i])

SpecCatalog == Init /\ [][NextCatalog]_vars

\* items a client makes up: the key is below every TokenKind value and the
\* detail is unset, or the key is above every value and the detail is set
UnknownItems ==
    {[label |-> "other", kind |-> "Keyword", data |-> -1, detail |-> <<>>,
      documentation |-> <<>>],
     [label |-> "other", kind |-> "Keyword", data |-> Len(TokenKindNames),
      detail |-> <<"other">>, documentation |-> <<>>]}

\* the whole server on one document, with a client that answers every
\* configuration query: every handler of the session, and completion at the
\* start and past the end of the text; the first entry of the list and
\* made-up items are resolved
FrameURIs == {"a.hz"}
FramePositions == {0, MaxTextLen + 1}
FrameEntries == {1}
\* settings objects without any section and with languageServerExample
FrameChanges ==
    {s \in ChangedSettings : s["haze-ls"] = NoSettings}

NextFrame ==
    \/ \E c \in SessionCapabilities : Initialize(c)
    \/ Initialized
    \/ \E u \in FrameURIs, v \in SessionOpenVersions, t \in SessionOpenTexts :
          DidOpen(u, v, t)
    \/ \E u \in FrameURIs, v \in SessionChangeVersions, cs \in SessionChanges :
          DidChange(u, v, cs)
    \/ \E u \in FrameURIs : DidClose(u)
    \/ \E u \in FrameURIs : DiagnosticsPull(u)
    \/ \E p \in 1..MaxQueries, s \in ClientSettings :
          ConfigurationReply(p, "fulfilled", s)
    \/ \E s \in FrameChanges : DidChangeConfiguration(s)
    \/ DidChangeWatchedFiles
    \/ \E u \in FrameURIs, position \in FramePositions :
          Completion(u, position)
    \/ \E i \in FrameEntries \cap DOMAIN completionReply :
          CompletionResolve(completionReply[i])
    \/ \E item \in UnknownItems : CompletionResolve(item)

SpecFrame == Init /\ [][NextFrame]_vars

\* ================================================================ claims
\* the number of configuration queries sent for uri
QueriesFor(ps, uri) == Cardinality({p \in DOMAIN ps : ps[p].uri = uri})

\* this step runs a handler that calls getDocumentSettings(uri): a content
\* change of the document, or a pull while the document is known
GetStep(uri) ==
    /\ last'.uri = uri
    /\ \/ last'.handler \in {"didOpen", "didChange"}
       \/ last'.handler = "diagnostics" /\ documents[uri].open

\* this step sends one new configuration query, for uri, and caches its
\* pending promise; the queries sent before stay as they are
FreshQuery(uri) ==
    /\ Len(promises') = Len(promises) + 1
    /\ QueriesFor(promises', uri) = QueriesFor(promises, uri) + 1
    /\ promises'[Len(promises')] =
           [uri |-> uri, section |-> "haze-ls", state |-> "pending",
            value |-> NoSettings]
    /\ \A p \in DOMAIN promises : promises'[p] = promises[p]
    /\ documentSettings'[uri] = Len(promises')
    /\ "workspace/configuration" \in last'.sent

\* this step answers a new diagnostics pull for uri, or suspends on it
PullStep(uri) ==
    /\ Len(replies') = Len(replies) + 1
    /\ replies'[Len(replies')].uri = uri

\* C1: a diagnostics pull for a URI the document store does not hold is
\* answered at once with a Full report without items, never with an error,
\* and sends no settings query and starts no validation run.
PullOfUnknownUriIsEmptyFull ==
    [][\A u \in URIs :
         (PullStep(u) /\ ~documents[u].open) =>
            /\ replies'[Len(replies')] =
                   [uri |-> u, state |-> "full", items |-> <<>>,
                    read |-> <<>>]
            /\ promises' = promises
            /\ documentSettings' = documentSettings
            /\ tasks' = tasks]_vars

\* C1 witness: a pull was just answered Full for a document that had been
\* opened (a query was sent for it) and has since been closed
PulledClosedDocument ==
    /\ last.handler = "diagnostics"
    /\ ~documents[last.uri].open
    /\ replies # <<>>
    /\ replies[Len(replies)] =
           [uri |-> last.uri, state |-> "full", items |-> <<>>,
            read |-> <<>>]
    /\ \E p \in DOMAIN promises : promises[p].uri = last.uri

\* C2: with configuration support, the Close of document D removes D's
\* cache entry, no handler puts one back while D stays closed, and the next
\* getDocumentSettings(D) sends a new query: the number of queries for D
\* grows by one and the new pending promise is what the cache holds.
CloseThenGetQueriesAgain ==
    [][\A u \in URIs :
         hasConfigurationCapability =>
            /\ (documents[u].open /\ ~documents'[u].open) =>
                   documentSettings'[u] = 0
            /\ (~documents[u].open /\ documentSettings[u] = 0
                  /\ ~GetStep(u)) => documentSettings'[u] = 0
            /\ (~documents[u].open /\ documentSettings[u] = 0
                  /\ GetStep(u)) => FreshQuery(u)]_vars

\* C2 witness: a document whose first query was answered has been closed
\* and reopened, and the reopening sent a second query for it
ReopenedWithSecondQuery ==
    /\ hasConfigurationCapability
    /\ last.handler = "didOpen"
    /\ Len(promises) = 2
    /\ promises[1].uri = last.uri /\ promises[1].state = "fulfilled"
    /\ promises[2].uri = last.uri /\ promises[2].state = "pending"
    /\ documentSettings[last.uri] = 2

\* C3: with configuration support, a configuration-change notification
\* leaves the settings cache without any entry, an emptied entry stays empty
\* until the next getDocumentSettings for its resource, and that call sends
\* a new query.
ConfigurationChangeEmptiesCache ==
    [][hasConfigurationCapability =>
         /\ last'.handler = "onDidChangeConfiguration" =>
                \A u \in URIs : documentSettings'[u] = 0
         /\ \A u \in URIs :
              /\ (documentSettings[u] = 0 /\ ~GetStep(u)) =>
                     documentSettings'[u] = 0
              /\ (documents[u].open /\ documentSettings[u] = 0
                    /\ GetStep(u)) => FreshQuery(u)]_vars

\* C3 witness: a change of, or a pull for, a document that already had a
\* query sent for it sends a second one: its entry was dropped while it was
\* open, which only the configuration change does
RequeriedAfterConfigurationChange ==
    /\ hasConfigurationCapability
    /\ last.handler \in {"didChange", "diagnostics"}
    /\ "workspace/configuration" \in last.sent
    /\ QueriesFor(promises, last.uri) = 2

\* C4: with configuration support, getDocumentSettings(R) sends a query only
\* when the cache holds no entry for R; with an entry, answered or not, it
\* sends nothing, leaves the cache as it is and the run waits for, or reads,
\* the cached promise.
OneQueryPerCachedResource ==
    [][\A u \in URIs :
         (hasConfigurationCapability /\ GetStep(u)) =>
            IF documentSettings[u] = 0
            THEN FreshQuery(u)
            ELSE /\ promises' = promises
                 /\ documentSettings' = documentSettings
                 /\ last'.sent = {}
                 /\ promises[documentSettings[u]].state = "pending" =>
                        \E t \in tasks' :
                            t.uri = u /\ t.promise = documentSettings[u]
                 /\ promises[documentSettings[u]].state = "fulfilled" =>
                        settings' = promises[documentSettings[u]].value]_vars

\* C4 witness: a pull for an open document found its only query still
\* unanswered and sent no second one
SecondGetWhilePending ==
    /\ hasConfigurationCapability
    /\ last.handler = "diagnostics"
    /\ documents[last.uri].open
    /\ last.sent = {}
    /\ documentSettings[last.uri] # 0
    /\ promises[documentSettings[last.uri]].state = "pending"
    /\ QueriesFor(promises, last.uri) = 1
    /\ \E t \in tasks : t.kind = "push" /\ t.uri = last.uri
    /\ \E t \in tasks : t.kind = "pull" /\ t.uri = last.uri

\* C5: without configuration support no query is ever sent, the settings
\* cache has no entry, no run is left waiting, and a validation run reads
\* the current global settings.
NoConfigurationMeansGlobalSettings ==
    ~hasConfigurationCapability =>
        /\ promises = <<>>
        /\ documentSettings = EmptyCache
        /\ tasks = {}
        /\ (\/ last.handler \in {"didOpen", "didChange"}
            \/ last.handler = "diagnostics" /\ documents[last.uri].open) =>
               (settings = globalSettings /\ last.sent = {})

\* C5 witness: without configuration support, a validation run read global
\* settings that a configuration change had replaced
ChangedGlobalSettingsRead ==
    /\ phase = "ready"
    /\ ~hasConfigurationCapability
    /\ last.handler = "didChange"
    /\ globalSettings # defaultSettings
    /\ settings = globalSettings

\* C6: a failed configuration query is never passed on to the client: a
\* diagnostics pull whose settings query failed is answered with a report,
\* not with an error.
QueryFailureFallsBackToDefaults ==
    \A i \in DOMAIN replies : replies[i].state # "error"

\* C7: a Change notification whose version is not greater than the stored
\* version leaves the stored document as it is.
StaleChangeIsNoOp ==
    [][\A u \in URIs :
         (/\ last'.handler = "didChange"
          /\ last'.uri = u
          /\ documents[u].open
          /\ last'.version <= documents[u].version) =>
            documents'[u] = documents[u]]_vars

\* the text a range or full replacement yields, position by position
Spliced(text, change) ==
    IF ~change.incremental THEN change.text
    ELSE LET lo == Min(Min(change.start, change.end), Len(text))
             hi == Min(Max(change.start, change.end), Len(text))
             ins == Len(change.text)
         IN  [i \in 1..(lo + ins + Len(text) - hi) |->
                IF i <= lo THEN text[i]
                ELSE IF i <= lo + ins THEN change.text[i - lo]
                ELSE text[i - lo - ins + hi]]

\* the text after the first k changes of the notification
RECURSIVE EditedText(_, _, _)
EditedText(text, changes, k) ==
    IF k = 0 THEN text
    ELSE Spliced(EditedText(text, changes, k - 1), changes[k])

\* C8: Open stores the version and the text it carries; a Change with a
\* version above the stored one stores that version and the stored text
\* with the notification's changes applied first to last.
ChangeAppliesEditsInOrder ==
    [][\A u \in URIs :
         /\ (last'.handler = "didOpen" /\ last'.uri = u) =>
               documents'[u] =
                   [open |-> TRUE, version |-> last'.version,
                    text |-> last'.text]
         /\ (/\ last'.handler = "didChange"
             /\ last'.uri = u
             /\ documents[u].open
             /\ last'.version > documents[u].version) =>
               documents'[u] =
                   [open |-> TRUE, version |-> last'.version,
                    text |-> EditedText(documents[u].text, last'.changes,
                                        Len(last'.changes))]]_vars

\* C8 witness: a notification of two insertions at offset 0 has been
\* applied: the character inserted second stands first
TwoEditsApplied ==
    /\ last.handler = "didChange"
    /\ last.changes = <<RangeChange(0, 0, <<"x">>), RangeChange(0, 0, <<"y">>)>>
    /\ last.version = MaxVersion
    /\ documents[last.uri] =
           [open |-> TRUE, version |-> MaxVersion, text |-> <<"y", "x">>]

\* the item is one the completion handler returns (before it is resolved)
FromCompletionList(item) ==
    \E i \in DOMAIN CompletionItems :
        /\ CompletionItems[i].label = item.label
        /\ CompletionItems[i].data = item.data

\* C9: every entry of the completion handler's answer carries a key the
\* resolve switch has a case for, and resolving such an entry sets both its
\* detail and its documentation.
EveryCompletionEntryResolves ==
    /\ \A i \in DOMAIN completionReply :
           MatchingCases(completionReply[i].data) # {}
    /\ (resolveReply # <<>> /\ FromCompletionList(resolveReply[1])) =>
           /\ resolveReply[1].detail # <<>>
           /\ resolveReply[1].documentation # <<>>

\* C9 witness: the last entry of the list has been resolved
LastEntryResolved ==
    /\ resolveReply # <<>>
    /\ resolveReply[1].label = "bool"
    /\ resolveReply[1].data = Len(CompletionItems) - 1
    /\ resolveReply[1].detail = <<"bool">>
    /\ resolveReply[1].documentation = <<"bool {src-reg}">>

\* C10: resolving an entry of the completion list sets its detail to its
\* label and its documentation to a non-empty string.
ResolvedDetailIsLabel ==
    (resolveReply # <<>> /\ FromCompletionList(resolveReply[1])) =>
        /\ resolveReply[1].detail = <<resolveReply[1].label>>
        /\ resolveReply[1].documentation \notin {<<>>, <<"">>}

\* C11: for every client capability descriptor, whichever of its objects and
\* fields are missing, the initialize handler returns a result that declares
\* incremental text synchronization, completion with resolveProvider = true
\* and a diagnostic provider with interFileDependencies = false and
\* workspaceDiagnostics = false; the result advertises workspace folders
\* exactly when the client declared them, and each session flag is true
\* exactly when the client declared its capability.
InitializeDeclaresCapabilities ==
    /\ phase = "created" =>
           \A c \in ClientCapabilities : ENABLED Initialize(c)
    /\ last.handler = "onInitialize" =>
           LET c == last.capabilities
           IN  /\ initializeResult.textDocumentSync = "Incremental"
               /\ initializeResult.resolveProvider = TRUE
               /\ initializeResult.interFileDependencies = FALSE
               /\ initializeResult.workspaceDiagnostics = FALSE
               /\ initializeResult.workspaceFolders =
                      (c.workspace /\ c.workspaceFolders)
               /\ hasConfigurationCapability =
                      (c.workspace /\ c.configuration)
               /\ hasWorkspaceFolderCapability =
                      (c.workspace /\ c.workspaceFolders)
               /\ hasDiagnosticRelatedInformationCapability =
                      (c.textDocument /\ c.publishDiagnostics
                         /\ c.relatedInformation)

\* C11 witness: initialize has answered a descriptor without the textDocument
\* object and without the configuration field, whose workspace object
\* declares workspace folders
InitializedWithoutTextDocument ==
    /\ last.handler = "onInitialize"
    /\ ~last.capabilities.textDocument
    /\ last.capabilities.relatedInformation
    /\ last.capabilities.workspace
    /\ last.capabilities.workspaceFolders
    /\ ~last.capabilities.configuration
    /\ initializeResult.workspaceFolders
    /\ hasWorkspaceFolderCapability
    /\ ~hasConfigurationCapability
    /\ ~hasDiagnosticRelatedInformationCapability

\* the keys of the catalog: the data of the entries the completion handler
\* returns
CatalogKeys == {CompletionItems[i].data : i \in DOMAIN CompletionItems}

\* C12: a completion-resolve request for an item whose data is not a catalog
\* key is answered with the item as it came, detail and documentation
\* untouched, and changes nothing else: the session stays ready and every
\* other part of its state is as before the request.
UnknownKeyResolveIsNoOp ==
    [][(/\ last'.handler = "onCompletionResolve"
        /\ last'.item.data \notin CatalogKeys) =>
          /\ resolveReply' = <<last'.item>>
          /\ phase = "ready" /\ phase' = "ready"
          /\ UNCHANGED <<capVars, initializeResult, registered,
                         folderListener, settingsVars, documents, runVars,
                         completionReply>>]_vars

\* C12 witness: after a made-up item, whose key is above every catalog key,
\* came back with the detail it had and no documentation, a diagnostics
\* pull for an open document was answered
PullAnsweredAfterUnknownKey ==
    /\ resolveReply # <<>>
    /\ resolveReply[1].data = Len(TokenKindNames)
    /\ resolveReply[1].detail = <<"other">>
    /\ resolveReply[1].documentation = <<>>
    /\ last.handler = "diagnostics"
    /\ documents[last.uri].open
    /\ replies[Len(replies)].uri = last.uri
    /\ replies[Len(replies)].state = "full"

\* C13: when the validation run started by an Open or a Change of document
\* D has run to its end within the handler (it is not left waiting for
\* settings), the handler has sent D's diagnostics to the client in a
\* textDocument/publishDiagnostics notification.
ContentChangePublishesDiagnostics ==
    (/\ last.handler \in {"didOpen", "didChange"}
     /\ last.validated = <<last.uri>>
     /\ \A t \in tasks : ~(t.kind = "push" /\ t.uri = last.uri)) =>
        "textDocument/publishDiagnostics" \in last.sent

\* C14: every diagnostics pull that has been answered was answered with a
\* Full report; when a validation run computed it (the document was in the
\* store), its items are what validation yields for the text the run read,
\* under any settings value, and that is the empty sequence.
PullOfKnownDocumentIsFull ==
    \A i \in DOMAIN replies :
        replies[i].state # "pending" =>
            /\ replies[i].state = "full"
            /\ replies[i].read # <<>> =>
                   /\ \A s \in ClientSettings \cup {defaultSettings} :
                          replies[i].items = Diagnostics(replies[i].read[1], s)
                   /\ replies[i].items = <<>>

\* the runs of tasks that validate uri
RunsFor(ts, uri) == {t \in ts : t.uri = uri}

\* C15: an Open or a Change of document D calls validation once, for D: the
\* step leaves at most one new run waiting, a run for D started by the
\* content change; it sends at most one settings query, for D; and it
\* leaves every other document, its cache entry, its queries and its
\* waiting runs as they were, and answers no pull.
ChangeValidatesOnlyItsDocument ==
    [][\A u \in URIs :
         (last'.handler \in {"didOpen", "didChange"} /\ last'.uri = u) =>
            /\ last'.validated = <<u>>
            /\ tasks \subseteq tasks'
            /\ (tasks' \ tasks) \subseteq
                   {[kind |-> "push", uri |-> u,
                     promise |-> documentSettings'[u], req |-> 0,
                     held |-> <<>>]}
            /\ Len(promises') \in {Len(promises), Len(promises) + 1}
            /\ \A p \in DOMAIN promises : promises'[p] = promises[p]
            /\ \A p \in DOMAIN promises' \ DOMAIN promises :
                   promises'[p].uri = u
            /\ replies' = replies
            /\ \A w \in URIs \ {u} :
                   /\ documents'[w] = documents[w]
                   /\ documentSettings'[w] = documentSettings[w]
                   /\ QueriesFor(promises', w) = QueriesFor(promises, w)
                   /\ RunsFor(tasks', w) = RunsFor(tasks, w)]_vars

\* C15 witness: a Change of one document left its run waiting for the
\* document's settings, while another open document has its own query
\* unanswered and its own run waiting
ChangedBesideWaitingDocument ==
    /\ last.handler = "didChange"
    /\ last.validated = <<last.uri>>
    /\ \E t \in tasks :
           /\ t.kind = "push" /\ t.uri = last.uri
           /\ t.promise = documentSettings[last.uri]
    /\ \E w \in URIs \ {last.uri} :
           /\ documents[w].open
           /\ documentSettings[w] # 0
           /\ promises[documentSettings[w]].state = "pending"
           /\ RunsFor(tasks, w) # {}

\* C16: when a pull for document D is the next message after a Change of D,
\* then either the run started by the Change has ended and the pull is
\* answered at once from the changed text, or that run waits for a settings
\* query and the pull's run waits for the same query. A waiting pull is
\* answered in the step that settles its query, which leaves no run waiting
\* for that query, and a Full answer is computed from the text D has at that
\* moment or, if D was closed meanwhile, had when it closed. A waiting run
\* ends only when its query is settled and never goes back to an older text.
PullAfterChangeIsFresh ==
    [][/\ \A u \in URIs :
            (last.handler = "didChange" /\ last.uri = u /\ PullStep(u)) =>
               LET q == documentSettings[u]
                   r == replies'[Len(replies')]
                   changeRun == [kind |-> "push", uri |-> u, promise |-> q,
                                 req |-> 0, held |-> <<>>]
                   pullRun == [kind |-> "pull", uri |-> u, promise |-> q,
                               req |-> Len(replies'), held |-> <<>>]
               IN  IF changeRun \in tasks
                   THEN /\ r.state = "pending"
                        /\ changeRun \in tasks'
                        /\ pullRun \in tasks'
                   ELSE /\ r.state # "pending"
                        /\ RunsFor(tasks', u) = RunsFor(tasks, u)
                        /\ r.state = "full" => r.read = <<documents[u].text>>
       /\ \A i \in DOMAIN replies :
            (replies[i].state = "pending" /\ replies'[i].state # "pending") =>
               \E run \in tasks :
                   /\ run.kind = "pull" /\ run.req = i
                   /\ promises[run.promise].state = "pending"
                   /\ promises'[run.promise].state # "pending"
                   /\ \A t \in tasks' : t.promise # run.promise
                   /\ replies'[i].state = "full" =>
                          replies'[i].read =
                              <<IF run.held # <<>> THEN run.held[1]
                                ELSE documents[run.uri].text>>
       /\ \A t \in tasks :
            \/ t \in tasks'
            \/ /\ promises[t.promise].state = "pending"
               /\ promises'[t.promise].state # "pending"
            \/ /\ t.held = <<>>
               /\ documents[t.uri].open /\ ~documents'[t.uri].open
               /\ [t EXCEPT !.held = <<documents[t.uri].text>>] \in tasks'
      ]_vars

\* C16 witness: a pull that waited for the only query sent was answered from
\* the changed text "y", which the document had when it was closed while
\* the pull was waiting
PullAnsweredFromChangedText ==
    /\ last.handler = "configurationReply"
    /\ Len(promises) = 1
    /\ promises[1].state = "fulfilled"
    /\ ~documents[promises[1].uri].open
    /\ tasks = {}
    /\ replies # <<>>
    /\ replies[1] = [uri |-> promises[1].uri, state |-> "full",
                     items |-> <<>>, read |-> <<<<"y">>>>]

\* C17: every uri that has an entry in the settings cache is the uri of a
\* document the store holds open.
CachedOnlyForOpenDocuments ==
    \A u \in URIs : documentSettings[u] # 0 => documents[u].open

\* C17 witness: a document was closed while its query was unanswered and has
\* no entry any more, while another, open document keeps its entry
ClosedWhileQueryPending ==
    /\ last.handler = "didClose"
    /\ ~documents[last.uri].open
    /\ documentSettings[last.uri] = 0
    /\ \E p \in DOMAIN promises :
           promises[p].uri = last.uri /\ promises[p].state = "pending"
    /\ \E t \in tasks : t.uri = last.uri
    /\ \E w \in URIs \ {last.uri} :
           documents[w].open /\ documentSettings[w] # 0

\* the handlers that run after the initialize request is answered
LaterHandlers ==
    {"onInitialized", "onDidChangeConfiguration", "didOpen", "didChange",
     "didClose", "diagnostics", "onCompletion", "onCompletionResolve",
     "onDidChangeWatchedFiles", "configurationReply"}

\* C18: a step that changes one of the three capability flags is a run of
\* the initialize handler; the initialized, configuration-change, open,
\* change, close, pull, completion, completion-resolve and watched-files
\* handlers, and the arrival of a configuration answer, leave all three as
\* they are.
FlagsWrittenOnlyByInitialize ==
    [][/\ capVars' # capVars => last'.handler = "onInitialize"
       /\ last'.handler \in LaterHandlers => capVars' = capVars
       /\ phase # "created" => capVars' = capVars]_vars

\* C18 witness: in a session whose client declared all three capabilities,
\* documents were opened and pulled, configuration was queried, completion
\* was answered and an item resolved, and the three flags are still set
FlagsKeptThroughSession ==
    /\ phase = "ready"
    /\ hasConfigurationCapability
    /\ hasWorkspaceFolderCapability
    /\ hasDiagnosticRelatedInformationCapability
    /\ promises # <<>>
    /\ replies # <<>>
    /\ completionReply # <<>>
    /\ resolveReply # <<>>
    /\ last.handler = "onDidChangeWatchedFiles"

\* C19: whatever the cursor position, the document store, the settings
\* cache, the global settings and the capability flags, a completion request
\* is answered with the catalog's entries in catalog order, the same answer
\* as the one before it; completion and completion-resolve requests leave
\* the store, the cache with its queries and waiting runs, the global
\* settings and the flags as they were.
CompletionIsStateless ==
    [][/\ last'.handler = "onCompletion" =>
            /\ completionReply' = CompletionItems
            /\ completionReply # <<>> => completionReply' = completionReply
       /\ last'.handler \in {"onCompletion", "onCompletionResolve"} =>
            /\ documents' = documents
            /\ documentSettings' = documentSettings
            /\ promises' = promises
            /\ tasks' = tasks
            /\ globalSettings' = globalSettings
            /\ capVars' = capVars]_vars

\* C19 witness: completion was answered with the whole catalog for a
\* position past the end of the text, while the document's settings query
\* is unanswered and a run waits for it
CompletionWhileQueryPending ==
    /\ last.handler = "onCompletion"
    /\ last.position = MaxTextLen + 1
    /\ completionReply = CompletionItems
    /\ Len(completionReply) = Len(TokenKindNames)
    /\ documents[last.uri].open
    /\ documentSettings[last.uri] # 0
    /\ promises[documentSettings[last.uri]].state = "pending"
    /\ tasks # {}

\* C20: with configuration support, while the cache holds for resource R a
\* query that failed, a getDocumentSettings(R) sends no query, leaves the
\* cache and the queries as they are, and its run fails at once on the
\* cached failure (a pull is answered with an error, a content change's run
\* ends in a rejection); the failed query stays failed, and the entry is
\* replaced or removed only by a Close of R or by a configuration change.
FailedQueryStaysCached ==
    [][\A u \in URIs :
         (/\ hasConfigurationCapability
          /\ documentSettings[u] # 0
          /\ promises[documentSettings[u]].state = "rejected") =>
            /\ promises'[documentSettings[u]] = promises[documentSettings[u]]
            /\ documentSettings'[u] # documentSettings[u] =>
                   \/ last'.handler = "didClose" /\ last'.uri = u
                   \/ last'.handler = "onDidChangeConfiguration"
            /\ GetStep(u) =>
                   /\ promises' = promises
                   /\ documentSettings' = documentSettings
                   /\ last'.sent = {}
                   /\ tasks' = tasks
                   /\ settings' = settings
                   /\ last'.handler = "diagnostics" =>
                          replies'[Len(replies')] =
                              [uri |-> u, state |-> "error", items |-> <<>>,
                               read |-> <<>>]
                   /\ last'.handler \in {"didOpen", "didChange"} =>
                          unhandled']_vars

\* C20 witness: a pull for an open document found the document's only query
\* failed, sent no new one and was answered with an error
PullOnFailedQuery ==
    /\ hasConfigurationCapability
    /\ last.handler = "diagnostics"
    /\ last.sent = {}
    /\ documents[last.uri].open
    /\ documentSettings[last.uri] # 0
    /\ promises[documentSettings[last.uri]].state = "rejected"
    /\ QueriesFor(promises, last.uri) = 1
    /\ replies[Len(replies)].uri = last.uri
    /\ replies[Len(replies)].state = "error"

\* the settings a notification carries for the server's own section, the one
\* getDocumentSettings asks for; the default settings when it carries none
ServerSectionOf(change) ==
    IF change[ConfigurationSection] # NoSettings
    THEN change[ConfigurationSection]
    ELSE defaultSettings

\* C21: without configuration support, a configuration-change notification
\* makes the global settings, which every later getDocumentSettings
\* returns, the settings it carries under the section 'haze-ls', and the
\* default settings (maxNumberOfProblems = 1000) when it carries no such
\* section.
ChangeSetsServerSection ==
    [][\A change \in ChangedSettings :
         (~hasConfigurationCapability /\ DidChangeConfiguration(change)) =>
            globalSettings' = ServerSectionOf(change)]_vars

====
